---- MODULE Spec2Model ----
(***************************************************************************)
(* Model of S1_NRB/processor.py: nrb_processing (overlap filter, product   *)
(* identity, per-category rasters, rename, derived rasters) and the NRB    *)
(* stage of main.  Python lists are 1-based sequences here.                *)
(***************************************************************************)
EXTENDS Integers, Sequences, FiniteSets, TLC

\* ------------------------------------------------------------------ bounds
NScenes == 3        \* scenes known to the archive (scene paths 1..NScenes)
MaxGroup == 2       \* longest scene list handed to a full nrb_processing run
NTiles == 2         \* MGRS tiles of the area of interest
MaxRuns == 2        \* successive invocations of nrb_processing on the same arguments
MaxPolLen == 2      \* longest polarization list of a scene
MaxFrame == 300     \* largest frame number rendered as a datatake code

Scenes == 1..NScenes
Tiles == 1..NTiles

\* ------------------------------------------------------------ scene metadata
\* Attributes of the pyroSAR ID object of scene s (ids[k].sensor, .meta[...]).
\* They are inputs; each scene gets its own values so that the scene a value
\* was taken from can be told from the value.
FrameBase == 254
OrbitBase == 30000
SensorOf(s) == IF s % 2 = 1 THEN "S1A" ELSE "S1B"
ModeOf(s) == IF s = 1 THEN "IW" ELSE IF s = 2 THEN "EW" ELSE "SM"
OrbitOf(s) == OrbitBase + s
FrameOf(s) == FrameBase + s
StartOf(s) == s     \* acquisition start time of scene s

Polarizations == {"HH", "HV", "VV", "VH"}
PolLists == UNION {[1..n -> Polarizations] : n \in 0..MaxPolLen}
Unread == <<"?">>   \* polarizations of a scene whose metadata was not read yet

\* ------------------------------------------------------------------ datasets
\* A geocoded file of a scene is [scene, key]: key is the ITEM_MAP category its
\* name carries, or "none" for a file name no ITEM_MAP key matches.
File(s, k) == [scene |-> s, key |-> k]
Full == <<"VH_gamma0-rtc", "VV_gamma0-rtc", "gammaSigmaRatio", "layoverShadowMask">>
Short == <<"VH_gamma0-rtc", "VV_gamma0-rtc", "gammaSigmaRatio">>
Other == <<"VH_gamma0-rtc", "VV_gamma0-rtc", "layoverShadowMask", "none">>
Listings == {Full, Short, Other, << >>}

\* find_datasets(directory=scene_dir): the files of scene s, in listing order
find_datasets(l, s) == [k \in 1..Len(l[s]) |-> File(s, l[s][k])]

\* ITEM_MAP[key]['suffix'] of the categories the listings carry
ItemKeys == {"VH_gamma0-rtc", "VV_gamma0-rtc", "gammaSigmaRatio", "layoverShadowMask"}
Suffix(key) ==
    CASE key = "VH_gamma0-rtc" -> "vh-g-lin"
      [] key = "VV_gamma0-rtc" -> "vv-g-lin"
      [] key = "gammaSigmaRatio" -> "gs"
      [] OTHER -> "dm"

\* re.search('[VH]{2}_gamma0-rtc', name)
IsGamma0(f) == f.key \in {"VH_gamma0-rtc", "VV_gamma0-rtc"}

\* ------------------------------------------------------------ list helpers
Range(q) == {q[k] : k \in 1..Len(q)}
\* del q[k]
Del(q, k) == [j \in 1..(Len(q) - 1) |-> IF j < k THEN q[j] ELSE q[j + 1]]
\* [x for x in q if P(x)]
RECURSIVE SelectGamma0(_)
SelectGamma0(q) ==
    IF q = << >> THEN << >>
    ELSE (IF IsGamma0(Head(q)) THEN <<Head(q)>> ELSE << >>) \o SelectGamma0(Tail(q))
\* ordered lists of distinct scenes, of length 0..n
SceneLists(n) ==
    UNION {{q \in [1..m -> Scenes] : \A a, b \in 1..m : a # b => q[a] # q[b]} : m \in 0..n}
\* the lists of up to n consecutive acquisitions, in acquisition order
Consecutive(n) ==
    {[k \in 1..m |-> first + k - 1] : first \in Scenes, m \in 0..n} \cap SceneLists(n)
Min(S) == CHOOSE x \in S : \A y \in S : x <= y

VARIABLES
    overlap,        \* {<<scene, tile>>}: the valid-data boundary of scene meets the tile
    listingOf,      \* scene -> category keys of its geocoded files, in listing order
    polsOf,         \* scene -> its polarization list (Unread until first read)
    wbm,            \* the wbm argument: "None", or a path whose file is "found" or "missing"
    idPool,         \* the tokens generate_unique_id can return
    scenes, tile,   \* arguments of the running nrb_processing call
    pc,             \* position in nrb_processing
    ids, datasets, i, snap_dm_tile_overlap,
    src_scenes, meta, nrbdir, files, fi, measure_paths,
    dirs,           \* product directories on disk
    fsFiles,        \* product files on disk: [dir, name, stamp]
    maskfs,         \* valid-data mask files on disk: <<scene, "ras" | "vec">>
    run,            \* number of the nrb_processing call (stamps the files it writes)
    events,         \* file-system calls issued by the running call, in order
    fs0,            \* fsFiles when the running call started
    error,          \* the exception the call raised, or NoError
    selection_grouped, t, s, attempts,  \* main: scene groups, loop indices, calls made
    frameNumber, datatake,              \* datatake rendering: argument and result
    processed,      \* main: scene -> engine outputs found in its directory (line 461)
    calls,          \* main: engine calls made: [step, scene, raised]
    log             \* main: records logged by the geocoding stage: [stage, scene, level]

vars == <<overlap, listingOf, polsOf, wbm, idPool, scenes, tile, pc, ids, datasets, i,
          snap_dm_tile_overlap, src_scenes, meta, nrbdir, files, fi, measure_paths,
          dirs, fsFiles, maskfs, run, events, fs0, error,
          selection_grouped, t, s, attempts, frameNumber, datatake, processed, calls, log>>

world == <<overlap, listingOf, wbm, idPool>>
args == <<scenes, tile>>
snapVars == <<processed, calls, log>>
mainVars == <<selection_grouped, t, s, attempts, snapVars>>
hexVars == <<frameNumber, datatake>>
productFs == <<dirs, fsFiles>>
identity == <<src_scenes, meta, nrbdir, files, fi, measure_paths>>

NoError == [type |-> "none"]
NoMeta == [id |-> "unset"]

\* ----------------------------------------------------- nrb_processing: entry
\* lines 70-78: identify the scenes, list their datasets, fail on no datasets
Invoke ==
    /\ pc = "idle"
    /\ ids' = scenes
    /\ datasets' = [k \in 1..Len(scenes) |-> find_datasets(listingOf, scenes[k])]
    /\ IF Len(scenes) = 0
       THEN /\ pc' = "raised"
            /\ error' = [type |-> "RuntimeError", what |-> "No pyroSAR datasets were found"]
       ELSE /\ pc' = "filter"
            /\ error' = NoError
    /\ i' = 1
    /\ snap_dm_tile_overlap' = << >>
    /\ events' = << >>
    /\ fs0' = fsFiles
    /\ UNCHANGED <<world, polsOf, args, identity, productFs, maskfs, run, mainVars, hexVars>>

\* ------------------------------------------------------------ overlap filter
\* lines 100-102: intersect(bounds, tile_geom) is None
NoIntersection(sc, tl) == <<sc, tl>> \notin overlap

\* lines 105-106 / 109-110: what one iteration does to ids, datasets, i
FilterIds(inter_none) == IF inter_none THEN Del(ids, i) ELSE ids
FilterDatasets(inter_none) == IF inter_none THEN Del(datasets, i) ELSE datasets
\* the index advanced on a deletion too
FilterIndexAlways(inter_none) == i + 1
FilterIndex(inter_none) == IF inter_none THEN i ELSE i + 1
\* line 109: the mask raster of a retained scene joins the overlap list
\* the mask raster of a removed scene is listed too
FilterOverlapListAlways(inter_none, snap_dm_ras) == Append(snap_dm_tile_overlap, snap_dm_ras)
FilterOverlapList(inter_none, snap_dm_ras) ==
    IF inter_none THEN snap_dm_tile_overlap ELSE Append(snap_dm_tile_overlap, snap_dm_ras)

\* line 88: the raster or the vector form of the valid-data mask is not on disk
MaskMissing(have_ras, have_vec) == ~(have_ras /\ have_vec)
\* lines 94, 97: a form is written when the mask is computed and the form is
\* not on disk
\* both forms written whenever the mask is computed
WriteMaskAlways(compute, have) == compute
WriteMask(compute, have) == compute /\ ~have

\* lines 83-111: one iteration of `while i < len(datasets)`
FilterStep ==
    /\ pc = "filter"
    /\ i <= Len(datasets)
    /\ LET pols == SelectGamma0(datasets[i]) IN
       IF pols = << >>
       THEN \* pols[0] on an empty list
            /\ pc' = "raised"
            /\ error' = [type |-> "IndexError", what |-> "pols[0]"]
            /\ UNCHANGED <<ids, datasets, i, snap_dm_tile_overlap, maskfs, events>>
       ELSE LET sc == pols[1].scene
                snap_dm_ras == <<sc, "ras">>
                snap_dm_vec == <<sc, "vec">>
                inter_none == NoIntersection(sc, tile)
                compute == MaskMissing(snap_dm_ras \in maskfs, snap_dm_vec \in maskfs)
            IN  /\ maskfs' = maskfs \cup {snap_dm_ras, snap_dm_vec}
                /\ events' = events
                      \o (IF compute THEN <<[op |-> "boundary", path |-> sc]>> ELSE << >>)
                      \o (IF WriteMask(compute, snap_dm_ras \in maskfs)
                          THEN <<[op |-> "mask", path |-> snap_dm_ras]>> ELSE << >>)
                      \o (IF WriteMask(compute, snap_dm_vec \in maskfs)
                          THEN <<[op |-> "mask", path |-> snap_dm_vec]>> ELSE << >>)
                /\ ids' = FilterIds(inter_none)
                /\ datasets' = FilterDatasets(inter_none)
                /\ i' = FilterIndex(inter_none)
                /\ snap_dm_tile_overlap' = FilterOverlapList(inter_none, snap_dm_ras)
                /\ UNCHANGED <<pc, error>>
    /\ UNCHANGED <<world, polsOf, args, identity, productFs, run, fs0, mainVars, hexVars>>

\* ---------------------------------------------------------- product identity
\* str(ids[0].polarizations): Python's rendering of a list of strings
RECURSIVE PyJoin(_)
PyJoin(p) ==
    IF Len(p) = 0 THEN ""
    ELSE IF Len(p) = 1 THEN "'" \o p[1] \o "'"
    ELSE "'" \o p[1] \o "', " \o PyJoin(Tail(p))
\* the list rendered in sorted order
PyStrSorted(p) ==
    IF Len(p) = 2 /\ p[1] = "VH" /\ p[2] = "VV" THEN "['VV', 'VH']"
    ELSE "[" \o PyJoin(p) \o "]"
PyStr(p) == "[" \o PyJoin(p) \o "]"

\* lines 122-125: the lookup table of the polarization class
PolTableKeys == {"['HH']", "['VV']", "['HH', 'HV']", "['VV', 'VH']"}
PolTable(key) ==
    CASE key = "['HH']" -> "SH"
      [] key = "['VV']" -> "SV"
      [] key = "['HH', 'HV']" -> "DH"
      [] key = "['VV', 'VH']" -> "DV"

\* line 128: hex(n).replace('x', '').upper(), strings as sequences of characters
HexBase == 16
LowerDigits == <<"0", "1", "2", "3", "4", "5", "6", "7", "8", "9",
                 "a", "b", "c", "d", "e", "f">>
RECURSIVE DigitsOf(_)
DigitsOf(n) ==
    IF n < HexBase THEN <<LowerDigits[n + 1]>>
    ELSE Append(DigitsOf(n \div HexBase), LowerDigits[(n % HexBase) + 1])
\* hex(n) for n >= 0: '0x' and the lowercase digits
PyHex(n) == <<"0", "x">> \o DigitsOf(n)
\* str.replace(old, '') for a one-character old
RECURSIVE Remove(_, _)
Remove(str, old) ==
    IF str = << >> THEN << >>
    ELSE (IF Head(str) = old THEN << >> ELSE <<Head(str)>>) \o Remove(Tail(str), old)
\* str.upper()
UpperChar(c) ==
    CASE c = "a" -> "A" [] c = "b" -> "B" [] c = "c" -> "C" [] c = "d" -> "D"
      [] c = "e" -> "E" [] c = "f" -> "F" [] c = "x" -> "X" [] OTHER -> c
Upper(str) == [k \in 1..Len(str) |-> UpperChar(str[k])]

\* the rendering without upper()
DatatakeLower(n) == Remove(PyHex(n), "x")
Datatake(n) == Upper(Remove(PyHex(n), "x"))

\* line 118: ancil.calc_product_start_stop, the start of the product
calc_product_start(src) == Min({StartOf(x) : x \in Range(src)})

\* lines 120-130: the naming record; line 135: nrbdir is its rendering, one
\* field of the directory name per field of the record
Meta(first, pols, src, tl) ==
    [mission |-> SensorOf(first),
     mode |-> ModeOf(first),
     polarization |-> PolTable(PyStr(pols)),
     start |-> calc_product_start(src),
     orbitnumber |-> OrbitOf(first),
     datatake |-> Datatake(FrameOf(first)),
     tile |-> tl,
     id |-> "ABCD"]

\* line 120: the scene whose metadata names the product
\* the last scene instead of the first
IdentitySceneLast == ids[Len(ids)]
IdentityScene == ids[1]

\* lines 158-161: zip(*datasets), or the single listing; an item is the tuple
\* of the files grouped at one position (a single file for one scene)
MinLen(d) == Min({Len(d[k]) : k \in 1..Len(d)})
GroupFiles(d) ==
    IF Len(d) > 1
    THEN [k \in 1..MinLen(d) |-> [j \in 1..Len(d) |-> d[j][k]]]
    ELSE [k \in 1..Len(d[1]) |-> <<d[1][k]>>]

\* lines 114-115: the no-overlap error, formatted with the tile id and the scenes
\* the message formatted without the scene list
NoOverlapErrorBare(tile_id, scene_list) ==
    [type |-> "RuntimeError", what |-> "None of the scenes overlap",
     tile_id |-> tile_id, scenes |-> << >>]
NoOverlapError(tile_id, scene_list) ==
    [type |-> "RuntimeError", what |-> "None of the scenes overlap",
     tile_id |-> tile_id, scenes |-> scene_list]

\* lines 113-136, 158-161: no-overlap failure, naming record, product directory
Identity ==
    /\ pc = "filter"
    /\ i > Len(datasets)
    /\ IF Len(ids) = 0
       THEN /\ pc' = "raised"
            /\ error' = NoOverlapError(tile, scenes)
            /\ UNCHANGED <<polsOf, identity, productFs, events>>
       ELSE \E p \in (IF polsOf[IdentityScene] = Unread THEN PolLists
                      ELSE {polsOf[IdentityScene]}) :
            /\ polsOf' = [polsOf EXCEPT ![IdentityScene] = p]
            /\ src_scenes' = ids
            /\ IF PyStr(p) \notin PolTableKeys
               THEN /\ pc' = "raised"
                    /\ error' = [type |-> "KeyError", what |-> PyStr(p)]
                    /\ UNCHANGED <<meta, nrbdir, files, fi, measure_paths, productFs, events>>
               ELSE LET m == Meta(IdentityScene, p, ids, tile) IN
                    /\ meta' = m
                    /\ nrbdir' = m
                    /\ dirs' = dirs \cup {m}
                    /\ events' = Append(events, [op |-> "makedirs", path |-> m,
                                                 existed |-> m \in dirs])
                    /\ files' = GroupFiles(datasets)
                    /\ fi' = 1
                    /\ pc' = "files"
                    /\ UNCHANGED <<measure_paths, fsFiles, error>>
    /\ UNCHANGED <<world, args, ids, datasets, i, snap_dm_tile_overlap, maskfs, run, fs0,
                   mainVars, hexVars>>

\* ------------------------------------------------------------ file system
IsFile(fs, dir, name) == \E f \in fs : f.dir = dir /\ f.name = name
FilesIn(fs, dir) == {f \in fs : f.dir = dir}
\* a raster library call writing (name) in (dir): the file is (re)written
WriteFile(fs, dir, name, stamp) ==
    {f \in fs : ~(f.dir = dir /\ f.name = name)}
        \cup {[dir |-> dir, name |-> name, stamp |-> stamp]}
\* a builder that writes its output once: an existing file is kept
WriteOnce(fs, dir, name, stamp) ==
    IF IsFile(fs, dir, name) THEN fs ELSE WriteFile(fs, dir, name, stamp)
MoveDir(fs, from, to) ==
    {IF f.dir = from THEN [f EXCEPT !.dir = to] ELSE f : f \in fs}
Created(kind, dir, name, fs) ==
    [op |-> "create", kind |-> kind, path |-> [dir |-> dir, name |-> name],
     existed |-> IsFile(fs, dir, name)]

\* ----------------------------------------------------- per-category rasters
\* lines 166-178: re.search(pattern, x) per file of the item; "none" is no match
KeysOf(item) == {item[k].key : k \in 1..Len(item)}
\* line 174: len(list(set(keys))) != 1
Mismatch(item) == Cardinality(KeysOf(item)) # 1
\* line 192: the guard of the crop/warp of one category
MustWarp(fs, dir, name) == ~IsFile(fs, dir, name)

\* lines 164-220: one iteration of `for i, item in enumerate(files)`
FileStep ==
    /\ pc = "files"
    /\ fi <= Len(files)
    /\ LET item == files[fi]
           key == item[1].key
           name == Suffix(key) \o ".tif"
       IN  IF Mismatch(item)
           THEN /\ pc' = "raised"
                /\ error' = [type |-> "RuntimeError", what |-> "file mismatch", item |-> item]
                /\ UNCHANGED <<fi, fsFiles, events>>
           ELSE /\ fi' = fi + 1
                /\ UNCHANGED <<pc, error>>
                /\ IF "none" \in KeysOf(item) \/ key = "layoverShadowMask"
                   THEN UNCHANGED <<fsFiles, events>>
                   ELSE IF MustWarp(fsFiles, nrbdir, name)
                   THEN /\ fsFiles' = WriteFile(fsFiles, nrbdir, name, run)
                        /\ events' = Append(events, Created("cog", nrbdir, name, fsFiles))
                   ELSE UNCHANGED <<fsFiles, events>>
    /\ UNCHANGED <<world, polsOf, args, ids, datasets, i, snap_dm_tile_overlap, src_scenes,
                   meta, nrbdir, files, measure_paths, dirs, maskfs, run, fs0, mainVars,
                   hexVars>>

\* ------------------------------------------------------------------ rename
\* line 224: ancil.generate_unique_id: a fixed-width token derived from a hash
\* of the time of the call; it can repeat, and it can be the placeholder
ProductIds == {"ABCD", "1A2B", "3C4D"}
\* the characters of a product id
IdChars(id) ==
    CASE id = "ABCD" -> <<"A", "B", "C", "D">>
      [] id = "1A2B" -> <<"1", "A", "2", "B">>
      [] OTHER -> <<"3", "C", "4", "D">>
\* str.replace(old, new): every occurrence of old, from the left
RECURSIVE PyReplace(_, _, _)
PyReplace(str, old, new) ==
    IF Len(str) < Len(old) THEN str
    ELSE IF SubSeq(str, 1, Len(old)) = old
         THEN new \o PyReplace(SubSeq(str, Len(old) + 1, Len(str)), old, new)
         ELSE <<Head(str)>> \o PyReplace(Tail(str), old, new)
\* line 225: nrbdir.replace('ABCD', product_id) acts on the whole name: on the
\* id field and on the datatake field, the one other field of the name that
\* can hold the letters A to D in a row
NrbdirNew(dir, product_id) ==
    [dir EXCEPT !.datatake = PyReplace(@, IdChars("ABCD"), IdChars(product_id)),
                !.id = IF @ = "ABCD" THEN product_id ELSE @]
\* line 226: os.rename fails on a directory that exists and is not empty
\* a rename that merges into an existing directory
RenameNeverBlocked(fs, from, to) == FALSE
RenameBlocked(fs, from, to) == to # from /\ FilesIn(fs, to) # {}
\* line 226 follows the loop of lines 164-220
\* the rename issued before the last item of the loop
RenameBeforeLast == fi >= Len(files)
RenameReady == fi > Len(files)
\* line 232: finder(nrbdir, ['[hv]{2}-g-lin.tif$']), sorted
MeasurePaths(fs, dir) ==
    (IF IsFile(fs, dir, "vh-g-lin.tif") THEN <<"vh-g-lin.tif">> ELSE << >>)
        \o (IF IsFile(fs, dir, "vv-g-lin.tif") THEN <<"vv-g-lin.tif">> ELSE << >>)

\* lines 222-232: unique id, os.rename, gs_path and measure_paths
Rename ==
    /\ pc = "files"
    /\ RenameReady
    /\ \E product_id \in idPool :
         LET nrbdir_new == NrbdirNew(nrbdir, product_id) IN
         IF RenameBlocked(fsFiles, nrbdir, nrbdir_new)
         THEN
              /\ pc' = "raised"
              /\ error' = [type |-> "OSError", what |-> "rename"]
              /\ events' = Append(events, [op |-> "rename", path |-> nrbdir,
                                           to |-> nrbdir_new, done |-> FALSE])
              /\ UNCHANGED <<nrbdir, dirs, fsFiles, measure_paths>>
         ELSE /\ dirs' = (dirs \ {nrbdir}) \cup {nrbdir_new}
              /\ fsFiles' = MoveDir(fsFiles, nrbdir, nrbdir_new)
              /\ nrbdir' = nrbdir_new
              /\ events' = Append(events, [op |-> "rename", path |-> nrbdir,
                                           to |-> nrbdir_new, done |-> TRUE])
              /\ measure_paths' = MeasurePaths(fsFiles', nrbdir_new)
              /\ IF IsFile(fsFiles', nrbdir_new, "gs.tif")
                 THEN pc' = "log" /\ error' = error
                 ELSE \* finder(...)[0] on an empty list
                      /\ pc' = "raised"
                      /\ error' = [type |-> "IndexError", what |-> "gs_path"]
    /\ UNCHANGED <<world, polsOf, args, ids, datasets, i, snap_dm_tile_overlap, src_scenes,
                   meta, files, fi, maskfs, run, fs0, mainVars, hexVars>>

\* ---------------------------------------------------------- derived rasters
\* item.replace('lin.tif', 'log.vrt')
LogOf(item) == IF item = "vh-g-lin.tif" THEN "vh-g-log.vrt" ELSE "vv-g-log.vrt"
\* item.replace('g-lin.tif', 's-lin.vrt'), item.replace('g-lin.tif', 's-log.vrt')
SigmaLinOf(item) == IF item = "vh-g-lin.tif" THEN "vh-s-lin.vrt" ELSE "vv-s-lin.vrt"
SigmaLogOf(item) == IF item = "vh-g-lin.tif" THEN "vh-s-log.vrt" ELSE "vv-s-log.vrt"

\* a guarded creation (`if not os.path.isfile(dst): create(dst)`): <<fs, events>> after it
GuardedCreate(st, kind, dir, name, stamp) ==
    IF IsFile(st[1], dir, name) THEN st
    ELSE <<WriteFile(st[1], dir, name, stamp),
           Append(st[2], Created(kind, dir, name, st[1]))>>
\* a creation issued without a guard, by a call that rewrites its output
UnguardedCreate(st, kind, dir, name, stamp) ==
    <<WriteFile(st[1], dir, name, stamp), Append(st[2], Created(kind, dir, name, st[1]))>>
\* a creation issued without a guard, by a builder that writes its output once
BuilderCreate(st, kind, dir, name, stamp) ==
    <<WriteOnce(st[1], dir, name, stamp), Append(st[2], Created(kind, dir, name, st[1]))>>

\* lines 236-241: log-scaled gamma nought of every measurement
RECURSIVE LogLoop(_, _, _, _)
LogLoop(st, items, dir, stamp) ==
    IF items = << >> THEN st
    ELSE LogLoop(GuardedCreate(st, "log", dir, LogOf(Head(items)), stamp),
                 Tail(items), dir, stamp)
LogVrts ==
    /\ pc = "log"
    /\ LET st == LogLoop(<<fsFiles, events>>, measure_paths, nrbdir, run) IN
       /\ fsFiles' = st[1]
       /\ events' = st[2]
    /\ pc' = "cc"
    /\ UNCHANGED <<world, polsOf, args, ids, datasets, i, snap_dm_tile_overlap, identity,
                   dirs, maskfs, run, fs0, error, mainVars, hexVars>>

\* lines 243-246: the colour composite of a dual-polarization product;
\* re.sub('[hv]{2}', 'cc', measure_paths[0]).replace('.tif', '.vrt')
CcCreate(st, dir, stamp) == UnguardedCreate(st, "cc", dir, "cc-g-lin.vrt", stamp)
ColourComposite ==
    /\ pc = "cc"
    /\ LET st == IF meta.polarization \in {"DH", "DV"} /\ Len(measure_paths) = 2
                 THEN CcCreate(<<fsFiles, events>>, nrbdir, run)
                 ELSE <<fsFiles, events>> IN
       /\ fsFiles' = st[1]
       /\ events' = st[2]
    /\ pc' = "dm"
    /\ UNCHANGED <<world, polsOf, args, ids, datasets, i, snap_dm_tile_overlap, identity,
                   dirs, maskfs, run, fs0, error, mainVars, hexVars>>

\* lines 250-257: water body mask check, ancil.create_data_mask
DataMask ==
    /\ pc = "dm"
    /\ IF wbm = "missing"
       THEN /\ pc' = "raised"
            /\ error' = [type |-> "FileNotFoundError", what |-> "wbm"]
            /\ UNCHANGED <<fsFiles, events>>
       ELSE LET st == BuilderCreate(<<fsFiles, events>>, "dm", nrbdir, "dm.tif", run) IN
            /\ fsFiles' = st[1]
            /\ events' = st[2]
            /\ pc' = "acq"
            /\ error' = error
    /\ UNCHANGED <<world, polsOf, args, ids, datasets, i, snap_dm_tile_overlap, identity,
                   dirs, maskfs, run, fs0, mainVars, hexVars>>

\* lines 261-263: ancil.create_acq_id_image
AcqId ==
    /\ pc = "acq"
    /\ LET st == BuilderCreate(<<fsFiles, events>>, "id", nrbdir, "id.tif", run) IN
       /\ fsFiles' = st[1]
       /\ events' = st[2]
    /\ pc' = "sigma"
    /\ UNCHANGED <<world, polsOf, args, ids, datasets, i, snap_dm_tile_overlap, identity,
                   dirs, maskfs, run, fs0, error, mainVars, hexVars>>

\* lines 267-279: sigma nought, linear and log-scaled, of every measurement
RECURSIVE SigmaLoop(_, _, _, _)
SigmaLoop(st, items, dir, stamp) ==
    IF items = << >> THEN st
    ELSE SigmaLoop(
            GuardedCreate(
                GuardedCreate(st, "sigma", dir, SigmaLinOf(Head(items)), stamp),
                "sigma", dir, SigmaLogOf(Head(items)), stamp),
            Tail(items), dir, stamp)
SigmaVrts ==
    /\ pc = "sigma"
    /\ LET st == SigmaLoop(<<fsFiles, events>>, measure_paths, nrbdir, run) IN
       /\ fsFiles' = st[1]
       /\ events' = st[2]
    /\ pc' = "meta"
    /\ UNCHANGED <<world, polsOf, args, ids, datasets, i, snap_dm_tile_overlap, identity,
                   dirs, maskfs, run, fs0, error, mainVars, hexVars>>

\* lines 283-287: the metadata emitters write the XML and STAC files
Metadata ==
    /\ pc = "meta"
    /\ LET st == UnguardedCreate(
                    UnguardedCreate(<<fsFiles, events>>, "meta", nrbdir, "xml", run),
                    "meta", nrbdir, "json", run) IN
       /\ fsFiles' = st[1]
       /\ events' = st[2]
    /\ pc' = "returned"
    /\ UNCHANGED <<world, polsOf, args, ids, datasets, i, snap_dm_tile_overlap, identity,
                   dirs, maskfs, run, fs0, error, mainVars, hexVars>>

\* nrb_processing, one step
NrbStep ==
    \/ Invoke \/ FilterStep \/ Identity \/ FileStep \/ Rename
    \/ LogVrts \/ ColourComposite \/ DataMask \/ AcqId \/ SigmaVrts \/ Metadata

\* ------------------------------------------------------------------ states
\* the local variables of a call that has not started
FreshLocals ==
    /\ ids = << >> /\ datasets = << >> /\ i = 1 /\ snap_dm_tile_overlap = << >>
    /\ src_scenes = << >> /\ meta = NoMeta /\ nrbdir = NoMeta /\ files = << >>
    /\ fi = 1 /\ measure_paths = << >> /\ events = << >> /\ error = NoError
\* the local variables are gone when the call is over
DropLocals ==
    /\ ids' = << >> /\ datasets' = << >> /\ i' = 1 /\ snap_dm_tile_overlap' = << >>
    /\ src_scenes' = << >> /\ meta' = NoMeta /\ nrbdir' = NoMeta /\ files' = << >>
    /\ fi' = 1 /\ measure_paths' = << >> /\ events' = << >> /\ error' = NoError
EmptyDisk == dirs = {} /\ fsFiles = {} /\ maskfs = {} /\ fs0 = {}
NoSnap == processed = [x \in Scenes |-> {}] /\ calls = << >> /\ log = << >>
NoMain == selection_grouped = << >> /\ t = 0 /\ s = 0 /\ attempts = << >> /\ NoSnap
NoHex == frameNumber = 0 /\ datatake = << >>
\* the scenes outside the call carry the full listing and meet no tile; at most
\* one scene of the call has a listing that deviates from the full one
WorldOf(used, tiles, listings) ==
    /\ overlap \in SUBSET (used \X tiles)
    /\ listingOf \in {l \in [Scenes -> listings] :
           /\ \A x \in Scenes \ used : l[x] = Full
           /\ Cardinality({x \in used : l[x] # Full}) <= 1}

\* nrb_processing invoked on one argument list, on an empty output directory
Init ==
    /\ scenes \in Consecutive(MaxGroup)
    /\ tile = 1
    /\ WorldOf(Range(scenes), {tile}, Listings)
    /\ polsOf = [x \in Scenes |-> Unread]
    /\ wbm \in {"None", "missing"}
    /\ idPool = ProductIds
    /\ pc = "idle" /\ run = 1
    /\ FreshLocals /\ EmptyDisk /\ NoMain /\ NoHex

\* the caller invokes nrb_processing again with the same arguments
Reinvoke ==
    /\ pc \in {"returned", "raised"}
    /\ selection_grouped = << >>
    /\ run < MaxRuns
    /\ run' = run + 1
    /\ pc' = "idle"
    /\ DropLocals
    /\ UNCHANGED <<world, polsOf, args, productFs, maskfs, fs0, mainVars, hexVars>>

Next == NrbStep \/ Reinvoke
Spec == Init /\ [][Next]_vars

\* ------------------------------------------------------- the overlap filter
InitFilter ==
    /\ scenes \in SceneLists(NScenes)
    /\ tile \in Tiles
    /\ WorldOf(Range(scenes), {tile}, Listings)
    /\ polsOf = [x \in Scenes |-> Unread]
    /\ wbm = "None" /\ idPool = ProductIds
    /\ pc = "idle" /\ run = 1
    /\ FreshLocals /\ EmptyDisk /\ NoMain /\ NoHex
NextFilter == Invoke \/ FilterStep
SpecFilter == InitFilter /\ [][NextFilter]_vars

\* the overlap filter on a disk that holds valid-data masks of earlier runs
MaskForms == {"ras", "vec"}
InitMask ==
    /\ scenes \in Consecutive(MaxGroup)
    /\ tile = 1
    /\ WorldOf(Range(scenes), {tile}, Listings)
    /\ polsOf = [x \in Scenes |-> Unread]
    /\ wbm = "None" /\ idPool = ProductIds
    /\ pc = "idle" /\ run = 1
    /\ FreshLocals /\ NoMain /\ NoHex
    /\ dirs = {} /\ fsFiles = {} /\ fs0 = {}
    /\ maskfs \in SUBSET (Range(scenes) \X MaskForms)
SpecMask == InitMask /\ [][NextFilter]_vars

\* ------------------------------------------------------ main: the NRB stage
aoi_tiles == [k \in 1..NTiles |-> k]
\* groupbyTime: the selection 1..n cut into consecutive groups of 1..MaxGroup scenes
RECURSIVE GroupingsFrom(_, _)
GroupingsFrom(first, n) ==
    IF first > n THEN {<< >>}
    ELSE UNION {{<<[k \in 1..m |-> first + k - 1]>> \o rest :
                    rest \in GroupingsFrom(first + m, n)} :
                m \in 1..(IF MaxGroup < n - first + 1 THEN MaxGroup ELSE n - first + 1)}
Groupings == UNION {GroupingsFrom(1, n) : n \in 1..MaxGroup}

InitMain ==
    /\ selection_grouped \in Groupings
    /\ WorldOf(UNION {Range(g) : g \in Range(selection_grouped)}, Tiles, {Full, << >>})
    /\ polsOf \in [Scenes -> {<<"VV", "VH">>}]
    /\ wbm = "None" /\ idPool = {"1A2B"}
    /\ scenes = << >> /\ tile = 0
    /\ t = 1 /\ s = 1 /\ attempts = << >> /\ NoSnap
    /\ pc = "main" /\ run = 0
    /\ FreshLocals /\ EmptyDisk /\ NoHex

\* line 534: `except Exception` catches what nrb_processing raises
\* `except RuntimeError`
CaughtRuntimeError(err) == err.type = "RuntimeError"
Caught(err) == TRUE

\* lines 513-531: the next (tile, scene group) pair, nrb_processing called
MainCall ==
    /\ pc = "main"
    /\ t <= Len(aoi_tiles)
    /\ scenes' = selection_grouped[s]
    /\ tile' = aoi_tiles[t]
    /\ attempts' = Append(attempts, [tile |-> aoi_tiles[t], group |-> s,
                                     outcome |-> "running"])
    /\ run' = run + 1
    /\ pc' = "idle"
    /\ DropLocals
    /\ UNCHANGED <<world, polsOf, productFs, maskfs, fs0, selection_grouped, t, s, snapVars,
                   hexVars>>

\* lines 532-536: the call returned or raised; log, next pair
MainHandle ==
    /\ pc \in {"returned", "raised"}
    /\ selection_grouped # << >>
    /\ attempts' = [attempts EXCEPT ![Len(attempts)].outcome =
                       IF pc = "returned" THEN "info" ELSE "exception " \o error.type]
    /\ IF pc = "raised" /\ ~Caught(error)
       THEN pc' = "main raised" /\ UNCHANGED <<t, s>>
       ELSE /\ pc' = "main"
            /\ IF s < Len(selection_grouped)
               THEN s' = s + 1 /\ t' = t
               ELSE s' = 1 /\ t' = t + 1
    /\ UNCHANGED <<world, polsOf, args, ids, datasets, i, snap_dm_tile_overlap, identity,
                   productFs, maskfs, run, events, fs0, error, selection_grouped, snapVars,
                   hexVars>>

NextMain == NrbStep \/ MainCall \/ MainHandle
SpecMain == InitMain /\ [][NextMain]_vars

\* ------------------------------------------------ main: the geocoding stage
\* what geocode and noise_power can raise
EngineErrors == {"RuntimeError", "OSError"}
Outputs == {"geo", "np"}
\* line 465: fewer than 4 files that are not noise power files
GeocodeNeeded(list_processed) == "geo" \notin list_processed
\* line 487: no file of the reference noise power layer
NoiseNeeded(list_processed) == "np" \notin list_processed
\* lines 477, 501: `except Exception`
\* `except RuntimeError`
EngineCaughtRuntimeError(err) == err = "RuntimeError"
EngineCaught(err) == TRUE
\* line 479: `continue` after a logged geocode failure
\* no `continue`: the loop body goes on with noise_power
GeocodeFailedFallThrough == "noise"
GeocodeFailed == "snap"

InitSnap ==
    /\ \E n \in 0..NScenes : ids = [k \in 1..n |-> k]
    /\ i = 1
    /\ processed \in [Scenes -> SUBSET Outputs]
    /\ \A x \in Scenes \ Range(ids) : processed[x] = {}
    /\ calls = << >> /\ log = << >>
    /\ pc = "snap" /\ run = 1
    /\ selection_grouped = << >> /\ t = 0 /\ s = 0 /\ attempts = << >>
    /\ scenes = << >> /\ tile = 1
    /\ overlap = {} /\ listingOf = [x \in Scenes |-> Full]
    /\ polsOf = [x \in Scenes |-> Unread] /\ wbm = "None" /\ idPool = ProductIds
    /\ datasets = << >> /\ snap_dm_tile_overlap = << >>
    /\ src_scenes = << >> /\ meta = NoMeta /\ nrbdir = NoMeta /\ files = << >>
    /\ fi = 1 /\ measure_paths = << >> /\ events = << >> /\ error = NoError
    /\ EmptyDisk /\ NoHex

\* lines 441-483: scene ids[i], up to the end of the geocode step
SnapGeocode ==
    /\ pc = "snap"
    /\ i <= Len(ids)
    /\ LET scene == ids[i] IN
       IF GeocodeNeeded(processed[scene])
       THEN \E outcome \in EngineErrors \cup {"ok"}, fast \in BOOLEAN :
            /\ outcome # "ok" => fast
            /\ calls' = Append(calls, [step |-> "geocode", scene |-> scene,
                                       raised |-> outcome # "ok"])
            /\ IF outcome = "ok"
               THEN /\ processed' = [processed EXCEPT ![scene] = @ \cup {"geo"}]
                    /\ log' = log \o <<[stage |-> "GEOCODE", scene |-> scene, level |-> "info"]>>
                             \o (IF fast
                                 THEN <<[stage |-> "GEOCODE", scene |-> scene,
                                         level |-> "warning"]>>
                                 ELSE << >>)
                    /\ pc' = "noise" /\ i' = i /\ error' = error
               ELSE IF EngineCaught(outcome)
                    THEN /\ log' = Append(log, [stage |-> "GEOCODE", scene |-> scene,
                                                level |-> "exception"])
                         /\ pc' = GeocodeFailed
                         /\ i' = IF GeocodeFailed = "snap" THEN i + 1 ELSE i
                         /\ UNCHANGED <<processed, error>>
                    ELSE /\ pc' = "main raised"
                         /\ error' = [type |-> outcome, what |-> "geocode"]
                         /\ UNCHANGED <<processed, log, i>>
       ELSE /\ log' = Append(log, [stage |-> "GEOCODE", scene |-> scene, level |-> "skip"])
            /\ pc' = "noise"
            /\ UNCHANGED <<processed, calls, i, error>>
    /\ UNCHANGED <<world, polsOf, args, ids, datasets, snap_dm_tile_overlap, identity,
                   productFs, maskfs, run, events, fs0, selection_grouped, t, s, attempts,
                   hexVars>>

\* lines 485-507: scene ids[i], the noise power step
SnapNoise ==
    /\ pc = "noise"
    /\ LET scene == ids[i] IN
       IF NoiseNeeded(processed[scene])
       THEN \E outcome \in EngineErrors \cup {"ok"} :
            /\ calls' = Append(calls, [step |-> "noise_power", scene |-> scene,
                                       raised |-> outcome # "ok"])
            /\ IF outcome = "ok"
               THEN /\ processed' = [processed EXCEPT ![scene] = @ \cup {"np"}]
                    /\ log' = Append(log, [stage |-> "NOISE_P", scene |-> scene,
                                           level |-> "info"])
                    /\ pc' = "snap" /\ i' = i + 1 /\ error' = error
               ELSE IF EngineCaught(outcome)
                    THEN /\ log' = Append(log, [stage |-> "NOISE_P", scene |-> scene,
                                                level |-> "exception"])
                         /\ pc' = "snap" /\ i' = i + 1
                         /\ UNCHANGED <<processed, error>>
                    ELSE /\ pc' = "main raised"
                         /\ error' = [type |-> outcome, what |-> "noise_power"]
                         /\ UNCHANGED <<processed, log, i>>
       ELSE /\ log' = Append(log, [stage |-> "NOISE_P", scene |-> scene, level |-> "skip"])
            /\ pc' = "snap" /\ i' = i + 1
            /\ UNCHANGED <<processed, calls, error>>
    /\ UNCHANGED <<world, polsOf, args, ids, datasets, snap_dm_tile_overlap, identity,
                   productFs, maskfs, run, events, fs0, selection_grouped, t, s, attempts,
                   hexVars>>

NextSnap == SnapGeocode \/ SnapNoise
SpecSnap == InitSnap /\ [][NextSnap]_vars

\* ------------------------------------------------- naming and renaming
\* frame numbers whose hexadecimal digits hold the placeholder, or part of it
PlaceholderFrames == {2748, 43981, 703710, 11259375}
InitNaming ==
    /\ frameNumber \in (0..MaxFrame) \cup PlaceholderFrames
    /\ datatake = << >>
    /\ scenes = <<1>> /\ tile = 1
    /\ overlap = {<<1, 1>>} /\ listingOf = [x \in Scenes |-> Full]
    /\ polsOf = [x \in Scenes |-> <<"VV", "VH">>] /\ wbm = "None" /\ idPool = ProductIds
    /\ pc = "naming" /\ run = 1
    /\ FreshLocals /\ EmptyDisk /\ NoMain
\* lines 120-135 for a scene with the frame number frameNumber
NameProduct ==
    /\ pc = "naming"
    /\ LET m == [Meta(1, polsOf[1], <<1>>, tile) EXCEPT !.datatake = Datatake(frameNumber)]
       IN  meta' = m /\ nrbdir' = m
    /\ pc' = "named"
    /\ UNCHANGED <<world, polsOf, args, ids, datasets, i, snap_dm_tile_overlap, src_scenes,
                   files, fi, measure_paths, productFs, maskfs, run, events, fs0, error,
                   mainVars, hexVars>>
\* lines 224-227: the new name of the directory
RenameProduct ==
    /\ pc = "named"
    /\ \E product_id \in idPool : nrbdir' = NrbdirNew(nrbdir, product_id)
    /\ pc' = "renamed"
    /\ UNCHANGED <<world, polsOf, args, ids, datasets, i, snap_dm_tile_overlap, src_scenes,
                   meta, files, fi, measure_paths, productFs, maskfs, run, events, fs0, error,
                   mainVars, hexVars>>
NextNaming == NameProduct \/ RenameProduct
SpecNaming == InitNaming /\ [][NextNaming]_vars

\* ------------------------------------------------------ datatake rendering
InitHex ==
    /\ frameNumber \in 0..MaxFrame
    /\ datatake = << >>
    /\ scenes = << >> /\ tile = 1
    /\ overlap = {} /\ listingOf = [x \in Scenes |-> Full]
    /\ polsOf = [x \in Scenes |-> Unread] /\ wbm = "None" /\ idPool = ProductIds
    /\ pc = "datatake" /\ run = 1
    /\ FreshLocals /\ EmptyDisk /\ NoMain
\* line 128 on the frame number of the scene
RenderDatatake ==
    /\ pc = "datatake"
    /\ datatake' = Datatake(frameNumber)
    /\ pc' = "rendered"
    /\ UNCHANGED <<world, polsOf, args, ids, datasets, i, snap_dm_tile_overlap, identity,
                   productFs, maskfs, run, events, fs0, error, mainVars, frameNumber>>
NextHex == RenderDatatake
SpecHex == InitHex /\ [][NextHex]_vars

\* ======================================================================
\* Properties
\* ======================================================================
\* the scenes of q whose valid-data boundary meets the tile, in the order of q
Keep(q) == SelectSeq(q, LAMBDA x : <<x, tile>> \in overlap)
FilterEnded == pc = "filter" /\ i > Len(datasets)
\* the call got past the no-overlap check of line 113
PastFilter == src_scenes # << >>
EventIs(k, op) == events[k].op = op
IsCreate(k, kinds) == events[k].op = "create" /\ events[k].kind \in kinds
NoProductEvent == \A k \in 1..Len(events) : events[k].op \notin {"makedirs", "create", "rename"}

\* C1: when the overlap filter loop ends, ids is the subsequence of the given
\* scenes whose valid-data boundary meets the tile, in the original order, and
\* datasets[k] is the listing of ids[k] for every k.
C1_OverlapFilter ==
    FilterEnded =>
        /\ ids = Keep(scenes)
        /\ Len(datasets) = Len(ids)
        /\ \A k \in 1..Len(ids) : datasets[k] = find_datasets(listingOf, ids[k])
C1_Witness ==
    /\ FilterEnded /\ Len(scenes) = 3 /\ Len(ids) = 2
    /\ ids[1] = scenes[1] /\ ids[2] = scenes[3]

\* C4: when no scene is left after the overlap filter, the call raises the
\* RuntimeError naming the tile id and the scene list, and it has issued no
\* makedirs, no raster creation and no rename.
C4_NoOverlapFailure ==
    (/\ pc \notin {"idle", "filter"} /\ scenes # << >> /\ ids = << >>
     /\ ~(error.type = "IndexError"))
        => /\ pc = "raised"
           /\ error.type = "RuntimeError"
           /\ error.what = "None of the scenes overlap"
           /\ error.tile_id = tile
           /\ error.scenes = scenes
           /\ NoProductEvent
           /\ fsFiles = fs0
C4_Witness ==
    /\ pc = "raised" /\ error.type = "RuntimeError" /\ Len(scenes) = 2 /\ ids = << >>
    /\ error.tile_id = tile /\ maskfs # {}

\* C7: the polarization class is SH for ['HH'], SV for ['VV'], DH for
\* ['HH', 'HV'] and DV for ['VV', 'VH']; any other list of the scene that
\* names the product raises an error before a product directory is made.
ExpectedClass(p) ==
    CASE p = <<"HH">> -> "SH"
      [] p = <<"VV">> -> "SV"
      [] p = <<"HH", "HV">> -> "DH"
      [] p = <<"VV", "VH">> -> "DV"
      [] OTHER -> "unmapped"
C7_PolarizationMapping ==
    PastFilter =>
        LET p == polsOf[src_scenes[1]] IN
        IF ExpectedClass(p) # "unmapped"
        THEN meta # NoMeta /\ meta.polarization = ExpectedClass(p) /\ error.type # "KeyError"
        ELSE pc = "raised" /\ error.type = "KeyError" /\ NoProductEvent /\ fsFiles = fs0
C7_Witness ==
    /\ PastFilter /\ polsOf[src_scenes[1]] = <<"VH", "VV">>
    /\ pc = "raised" /\ error.type = "KeyError" /\ dirs = {}
C7_WitnessMapped ==
    /\ PastFilter /\ polsOf[src_scenes[1]] = <<"HH", "HV">> /\ meta.polarization = "DH"

\* C9 as claimed: the mission, mode, polarization class, orbit number and
\* datatake of the naming record are those of the first scene of the list given
\* to nrb_processing, whatever the overlap filter removed.
NamedAfter(sc) ==
    /\ meta.mission = SensorOf(sc)
    /\ meta.mode = ModeOf(sc)
    /\ meta.orbitnumber = OrbitOf(sc)
    /\ meta.datatake = Datatake(FrameOf(sc))
    /\ meta.polarization = ExpectedClass(polsOf[sc])
    /\ meta.tile = tile
C9_Claim == meta # NoMeta => NamedAfter(scenes[1])
\* C9, amended: these fields are those of the first scene the overlap filter
\* retained (the first scene of the list whose boundary meets the tile).
C9_IdentityFromFirstRetained == meta # NoMeta => NamedAfter(Keep(scenes)[1])
C9_Witness ==
    /\ meta # NoMeta /\ Len(scenes) = 2 /\ src_scenes = <<scenes[2]>>
    /\ meta.orbitnumber = OrbitOf(scenes[2])

\* C10 as claimed: the datatake code is exactly the uppercase hexadecimal
\* digits of the frame number, with no character added in front.
UpperDigits == <<"0", "1", "2", "3", "4", "5", "6", "7", "8", "9",
                 "A", "B", "C", "D", "E", "F">>
DigitValue(c) == (CHOOSE k \in 1..HexBase : UpperDigits[k] = c) - 1
RECURSIVE HexValue(_)
HexValue(str) ==
    IF str = << >> THEN 0
    ELSE HexValue(SubSeq(str, 1, Len(str) - 1)) * HexBase + DigitValue(str[Len(str)])
\* str is the uppercase hexadecimal numeral of n, without leading zeros
IsUpperHexOf(str, n) ==
    /\ str # << >>
    /\ \A k \in 1..Len(str) : str[k] \in Range(UpperDigits)
    /\ Len(str) > 1 => str[1] # "0"
    /\ HexValue(str) = n
C10_Claim == pc = "rendered" => IsUpperHexOf(datatake, frameNumber)
\* C10, amended: the datatake code is the character '0' (what is left of the
\* '0x' prefix of hex()) followed by the uppercase hexadecimal digits of the
\* frame number: 255 gives '0FF'.
C10_DatatakeKeepsZero ==
    pc = "rendered" =>
        /\ Len(datatake) >= 2
        /\ datatake[1] = "0"
        /\ IsUpperHexOf(Tail(datatake), frameNumber)
C10_Witness == pc = "rendered" /\ frameNumber = 255 /\ datatake = <<"0", "F", "F">>

\* C5: main attempts nrb_processing once for every (tile, scene group) pair, in
\* tile-major order, whatever earlier attempts did; an exception of an attempt
\* is logged and does not leave main.
NGroups == Len(selection_grouped)
MainOver == pc = "main" /\ t > Len(aoi_tiles)
C5_PartialFailureIsolation ==
    /\ pc # "main raised"
    /\ \A k \in 1..Len(attempts) :
          /\ attempts[k].tile = aoi_tiles[((k - 1) \div NGroups) + 1]
          /\ attempts[k].group = ((k - 1) % NGroups) + 1
          /\ k < Len(attempts) => attempts[k].outcome # "running"
    /\ MainOver =>
          /\ Len(attempts) = Len(aoi_tiles) * NGroups
          /\ \A k \in 1..Len(attempts) : attempts[k].outcome # "running"
C5_Witness ==
    /\ MainOver
    /\ \E j, k \in 1..Len(attempts) :
          /\ j < k
          /\ attempts[j].outcome = "exception IndexError"
          /\ attempts[k].outcome = "info"
    /\ \E j, k \in 1..Len(attempts) :
          /\ j < k
          /\ attempts[j].outcome = "exception RuntimeError"
          /\ attempts[k].outcome = "info"

\* C2 as claimed: no raster of the product (per-category, log-scale, sigma
\* nought, colour composite, data mask, acquisition id) is created after the
\* rename of the product directory.
RasterKinds == {"cog", "log", "sigma", "cc", "dm", "id"}
DerivedKinds == RasterKinds \ {"cog"}
RenamedBefore(k) == \E j \in 1..(k - 1) : events[j].op = "rename" /\ events[j].done
Renamed == RenamedBefore(Len(events) + 1)
Writable(item) == ~Mismatch(item) /\ item[1].key \in ItemKeys \ {"layoverShadowMask"}
FirstReturned(ids_) == \E f \in fs0 : f.name = "json" /\ f.stamp = 1 /\ f.dir.id \in ids_
Finalized(f) == f.dir.id # "ABCD"
KeySet(listing) == {listing[k].key : k \in 1..Len(listing)} \cap ItemKeys
SameKeySets == \A a, b \in 1..Len(datasets) : KeySet(datasets[a]) = KeySet(datasets[b])
LoopDone ==
    \/ pc = "files" /\ fi > Len(files)
    \/ pc \in {"log", "cc", "dm", "acq", "sigma", "meta", "returned"}
C6_Claim == (PastFilter /\ Len(datasets) > 1 /\ ~SameKeySets) => ~LoopDone

\* C8 as claimed: no creation is issued for a per-category, log-scale, sigma
\* nought or colour composite file that exists when its step is reached.
C8_Claim ==
    \A k \in 1..Len(events) : IsCreate(k, {"cog", "log", "sigma", "cc"}) => ~events[k].existed

\* C11 as claimed: whenever no geocoded datasets are found for the scenes of a
\* call (the scene list is empty, or the listing of some scene is empty or has
\* no gamma0 layer), the call ends with the RuntimeError 'No pyroSAR datasets
\* were found' and with no other exception.
NoDatasetsFound ==
    \/ scenes = << >>
    \/ \E k \in 1..Len(scenes) : SelectGamma0(find_datasets(listingOf, scenes[k])) = << >>
CallOver == pc \in {"raised", "returned"}
C11_Claim ==
    (CallOver /\ NoDatasetsFound) =>
        error = [type |-> "RuntimeError", what |-> "No pyroSAR datasets were found"]

\* C12: when geocode or noise_power raises for a scene, the exception is
\* logged, no further engine step is run for that scene (noise_power is not
\* invoked after a geocode failure), every scene after it is still processed,
\* and the exception does not leave main.
StageOf(step) == IF step = "geocode" THEN "GEOCODE" ELSE "NOISE_P"
Logged(stage, scene, level) ==
    \E j \in 1..Len(log) : log[j] = [stage |-> stage, scene |-> scene, level |-> level]
SnapOver == pc = "snap" /\ i > Len(ids)
C12_EngineFailureIsolation ==
    /\ pc # "main raised"
    /\ \A k \in 1..Len(calls) :
          calls[k].raised =>
              /\ Logged(StageOf(calls[k].step), calls[k].scene, "exception")
              /\ \A j \in (k + 1)..Len(calls) : calls[j].scene # calls[k].scene
    /\ \A k \in 1..Len(ids) :
          (k < i \/ SnapOver) => \E j \in 1..Len(log) : log[j].scene = ids[k]
C12_Witness ==
    /\ SnapOver /\ Len(calls) > 0
    /\ calls[1] = [step |-> "geocode", scene |-> 1, raised |-> TRUE]
    /\ \E k \in 1..Len(calls) : calls[k] = [step |-> "noise_power", scene |-> 2, raised |-> TRUE]
    /\ Logged("GEOCODE", 3, "info") /\ Logged("NOISE_P", 3, "info")

\* C13: an iteration of the overlap filter never writes a valid-data mask file
\* that is on disk; when both forms of the scene's mask are on disk it computes
\* and writes nothing, and when exactly one form is on disk it writes the
\* missing form only.
C13_Step ==
    (pc = "filter" /\ i <= Len(datasets) /\ SelectGamma0(datasets[i]) # << >>) =>
        LET sc == SelectGamma0(datasets[i])[1].scene
            ras == <<sc, "ras">>
            vec == <<sc, "vec">>
            new == SubSeq(events', Len(events) + 1, Len(events'))
            written == {new[k].path : k \in {j \in 1..Len(new) : new[j].op = "mask"}}
        IN  /\ maskfs \subseteq maskfs'
            /\ written \cap maskfs = {}
            /\ ({ras, vec} \subseteq maskfs) => new = << >>
            /\ (ras \in maskfs /\ vec \notin maskfs) => written = {vec}
            /\ (vec \in maskfs /\ ras \notin maskfs) => written = {ras}
            /\ (ras \notin maskfs /\ vec \notin maskfs) => written = {ras, vec}
C13_MaskCache == [][C13_Step]_vars
C13_Witness ==
    /\ pc = "filter" /\ i > Len(datasets) /\ Len(scenes) = 2
    /\ events = <<[op |-> "boundary", path |-> scenes[1]],
                  [op |-> "mask", path |-> <<scenes[1], "vec">>]>>

\* C14 as claimed: the renamed directory name differs from the placeholder
\* name in the product id field only; the mission, mode, polarization, start,
\* orbit, datatake and tile fields are those of the placeholder name.
C14_Claim == pc = "renamed" => nrbdir = [meta EXCEPT !.id = nrbdir.id]

\* C15: at every iteration boundary of the overlap filter ids and datasets
\* have the same length and the overlap list has one entry per scene retained
\* so far (i entries, counting from 0); when the loop has ended its k-th entry
\* is the valid-data mask raster of the k-th retained scene, so the list the
\* data mask and acquisition id builders get matches src_scenes entry for entry.
C15_OverlapListAligned ==
    /\ pc = "filter" =>
          /\ Len(ids) = Len(datasets)
          /\ Len(snap_dm_tile_overlap) = i - 1
          /\ \A k \in 1..(i - 1) : snap_dm_tile_overlap[k] = <<ids[k], "ras">>
    /\ pc \in {"files", "log", "cc", "dm", "acq", "sigma", "meta", "returned"} =>
          /\ Len(snap_dm_tile_overlap) = Len(src_scenes)
          /\ \A k \in 1..Len(src_scenes) : snap_dm_tile_overlap[k] = <<src_scenes[k], "ras">>
C15_Witness ==
    /\ pc = "acq" /\ scenes = <<1, 2>> /\ src_scenes = <<2>>
    /\ snap_dm_tile_overlap = << <<2, "ras">> >>

====
